---- MODULE Spec2Model ----
(***************************************************************************)
(* Post-generation workflow engine of LinkedIn-AIAutoPost.                 *)
(*                                                                         *)
(* Two implementations of LinkedInWorkflow live in the repository and both *)
(* are modelled; impl selects one:                                         *)
(*   "app"  backend/app/services/workflow_service.py (and the identical    *)
(*          graph of linkedin_workflow.py): every call invokes the whole   *)
(*          LangGraph graph from its entry point generate_content;         *)
(*   "src"  backend/src/services/ai/workflow_manager.py: start invokes the *)
(*          graph, resume calls _post_to_linkedin / _revise_content        *)
(*          directly.                                                      *)
(* Spec is the workflow engine with its session layer.  The nested agent   *)
(* pipeline (MultiAgentGeminiWorkflow) is stepped node by node under       *)
(* SpecPipeline; inside the workflow's generate_content node its run is    *)
(* one step whose result is drawn from PipelineOutcomes, the set the same  *)
(* node functions produce.  Collaborators (language model, image           *)
(* providers, publisher, credential store) answer nondeterministically.    *)
(***************************************************************************)
EXTENDS Integers, Sequences, FiniteSets, TLC

VARIABLES
    impl,       \* which LinkedInWorkflow class is running
    multi,      \* self.use_multi_agent and self.multi_agent_workflow after __init__
    sess,       \* "none" | "stored": workflow_sessions holds a state for the session id
    ws,         \* the WorkflowState (the stored one between calls, the graph's during a call)
    inp,        \* the state object handed to the call in progress
    pc,         \* node about to run in the call in progress, "idle" between calls
    call,       \* the call in progress or last finished: operation, decision, outcome
    steps,      \* LangGraph supersteps taken by the invoke in progress
    resumes,    \* resume calls made on the session so far
    ag,         \* AgentState of the pipeline run in progress
    agPc,       \* pipeline node about to run, "off" outside a pipeline run
    writes,     \* Write invocations of the pipeline run
    calls,      \* collaborator calls made by the call in progress (saturating)
    prev,       \* publish requests of the preceding call if it was an Approved
                \* resume, -1 otherwise
    agLog,      \* editor answers of the pipeline run
    errInCall,  \* some step of the call in progress has set ws.error
    concurrent, \* a second approve_post request running while the call is in
                \* flight: "none", "awaiting" (suspended at its await), "sent"
                \* (it sent a publish request) or "done" (it ended without one)
    rt,         \* the content-generator call in progress inside gemini_client
    otherImage  \* whose image the file at another session's image_path holds

vars == <<rt, otherImage, impl, multi, sess, ws, inp, pc, call, steps, resumes, ag, agPc,
          writes, calls, prev, agLog, errInCall, concurrent>>

(***************************************************************************)
(* Bounds of the model.                                                    *)
(***************************************************************************)
MaxResumes == 4         \* resume calls per session, direct-call engine
MaxGraphResumes == 2    \* resume calls per session, graph-invoking engine
CallCap == 2            \* collaborator-call counters saturate here
RecursionLimit == 8     \* supersteps one graph invoke may take (langgraph's
                        \* recursion_limit, 25 by default)

(***************************************************************************)
(* Program constants.                                                      *)
(***************************************************************************)
max_revisions == 3        \* WorkflowState.max_revisions (workflow_manager.py)
ag_max_revisions == 2     \* AgentState.max_revisions (agent_class.py)
MIN_REVISED_LEN == 50     \* EditorAgent.edit: len(revised) > 50

Min(a, b) == IF a < b THEN a ELSE b
Bump(n) == Min(n + 1, CallCap)

(***************************************************************************)
(* Values.                                                                 *)
(***************************************************************************)
\* generated_post = None
NoPost == [content |-> "none", image_prompt |-> "none"]

\* LinkedInPost(content, hashtags, image_prompt, post_type)
LinkedInPost(content, image_prompt) ==
    [content |-> content, image_prompt |-> image_prompt]

\* a text the model returns: empty, or a non-empty text named after the call
\* that produced it
TextsOf(producer) == {"", producer}

\* image_prompt: "none" is None or the empty string (both falsy), or a prompt
Prompts == {"none", "prompt"}

\* WorkflowState(...) as constructed by run_workflow
WorkflowState(include_image) ==
    [ generated_post |-> NoPost,
      image_path |-> "",
      include_image |-> include_image,
      revision_count |-> 0,
      approved |-> FALSE,
      feedback |-> "",
      error |-> "",
      posted_to_linkedin |-> FALSE ]

NoCalls == [gen |-> 0, rev |-> 0, img |-> 0, pub |-> 0]
NoCall == [op |-> "none", raised |-> FALSE, lastNode |-> "none",
           branch |-> "none", fromPhase |-> "NONE",
           fromCount |-> 0,     \* revision_count of the state handed in
           gen |-> "none",      \* what the last generate_content step did
           img |-> "notrun",    \* what the last generate_image step did
           response |-> <<>>]   \* what approve_post raised for an unknown id
NoFinalPost == [content |-> "none", image_prompt |-> "none"]

\* AgentState(...) as constructed by generate_post
AgentState(post_type, include_image) ==
    [ post_type |-> post_type,
      include_image |-> include_image,
      research_summary |-> "",
      content_strategy |-> "",
      draft_content |-> "",
      revised_content |-> "",
      hashtags |-> "none",
      needs_revision |-> FALSE,
      revision_count |-> 0,
      image_prompt |-> "",
      final_post |-> NoFinalPost ]

PostTypes == {"ai_news", "personal_milestone"}
NoAgent == AgentState("ai_news", FALSE)
NoLog == [edits |-> 0, allNeeds |-> TRUE, loops |-> 0, fallbacks |-> {},
          raised |-> FALSE, trace |-> <<>>,
          revisedLen |-> 0,    \* len(revised) of the last editor answer
          edited |-> "",       \* revised_content the last Edit stage left
          visualCalls |-> 0,   \* llm.invoke calls of the Visual stage
          visualOut |-> ""]    \* the answer to that call, untrimmed

(***************************************************************************)
(* Routing functions of the graphs.                                        *)
(***************************************************************************)
\* workflow_service.py _image_decision
image_decision(s) == IF s.include_image THEN "with_image" ELSE "without_image"

\* an approval router that takes the absence of a decision for an approval
approval_decision_default_approved(s) ==
    IF s.approved THEN "approved"
    ELSE IF s.feedback # "" THEN "needs_revision"
    ELSE "approved"

\* workflow_service.py _approval_decision
approval_decision(s) ==
    IF s.approved THEN "approved"
    ELSE IF s.feedback # "" THEN "needs_revision"
    ELSE "rejected"

\* workflow_manager.py _check_review_outcome
check_review_outcome(s) ==
    IF s.approved THEN "approved"
    ELSE IF s.feedback # ""
         THEN IF s.revision_count >= max_revisions THEN "rejected" ELSE "revise"
    ELSE "rejected"

\* workflow_manager.py continue_workflow_with_approval: if approved / elif feedback / else
continue_branch(approved, feedback) ==
    IF approved THEN "approved"
    ELSE IF feedback # "" THEN "revise"
    ELSE "rejected"

\* a router whose bound on revision_count is two too high
should_revise_late(a) ==
    IF a.needs_revision /\ a.revision_count <= ag_max_revisions + 1
    THEN "revise" ELSE "continue"

\* a router that still loops back when revision_count has reached the limit
should_revise_inclusive(a) ==
    IF a.needs_revision /\ a.revision_count <= ag_max_revisions
    THEN "revise" ELSE "continue"

\* multi_agent_service.py _should_revise
should_revise(a) ==
    IF a.needs_revision /\ a.revision_count < ag_max_revisions
    THEN "revise" ELSE "continue"

(***************************************************************************)
(* Node functions: the state a node returns for one collaborator outcome.  *)
(***************************************************************************)
\* outcome of a model call that returns a post: it raised, or it parsed to a post
Raised == [ok |-> FALSE, post |-> NoPost]
Returned(post) == [ok |-> TRUE, post |-> post]

\* generate_linkedin_post: posts the single-shot call can return.  With
\* include_image false the response schema has no image_prompt.
SingleShotPosts(include_image) ==
    { LinkedInPost(c, p) :
        c \in TextsOf("generated"), p \in IF include_image THEN Prompts ELSE {"none"} }

\* revise_linkedin_post: LinkedInPost(**data) of the model's answer
RevisedPosts == { LinkedInPost(c, p) : c \in TextsOf("revised"), p \in Prompts }

\* a generation node that restarts the revision count with every new draft
generate_content_single_reset(s, out) ==
    IF out.ok THEN [s EXCEPT !.generated_post = out.post, !.revision_count = 0]
    ELSE [s EXCEPT !.error = "Content generation failed"]

\* _generate_content_single_agent / the single-shot branch of _generate_content
generate_content_single(s, out) ==
    IF out.ok THEN [s EXCEPT !.generated_post = out.post]
    ELSE [s EXCEPT !.error = "Content generation failed"]

\* image_prompt of a LinkedInPost: None and the empty string, both falsy to
\* the workflow, are the one value "none"
falsy_prompt(image_prompt) == IF image_prompt = "" THEN "none" ELSE image_prompt

\* workflow_service.py _generate_content_multi_agent, lines 143-148:
\* LinkedInPost(content=result["content"], image_prompt=result.get("image_prompt"))
app_convert_final_post(final_post) ==
    LinkedInPost(final_post.content, falsy_prompt(final_post.image_prompt))

\* workflow_manager.py _generate_content, lines 112-117:
\* LinkedInPost(content=result.get("content", ""), image_prompt=result.get("image_prompt", ""))
src_convert_final_post(final_post) ==
    LinkedInPost(final_post.content, falsy_prompt(final_post.image_prompt))

\* a revise node that stores the revised post but leaves the counter alone
app_revise_content_uncounted(s, out) ==
    IF s.feedback = "" THEN [s EXCEPT !.error = "No feedback provided for revision"]
    ELSE IF out.ok
         THEN [s EXCEPT !.generated_post = out.post, !.feedback = ""]
    ELSE [s EXCEPT !.error = "Content revision failed"]

\* workflow_service.py _revise_content
app_revise_content(s, out) ==
    IF s.feedback = "" THEN [s EXCEPT !.error = "No feedback provided for revision"]
    ELSE IF out.ok
         THEN [s EXCEPT !.generated_post = out.post,
                        !.revision_count = @ + 1,
                        !.feedback = ""]
    ELSE [s EXCEPT !.error = "Content revision failed"]

\* workflow_manager.py _revise_content: the counter is incremented before the try
src_revise_content(s, out) ==
    LET s1 == [s EXCEPT !.revision_count = @ + 1]
    IN  IF out.ok
        THEN [s1 EXCEPT !.generated_post = out.post, !.feedback = ""]
        ELSE [s1 EXCEPT !.error = "Revision failed"]

\* workflow_service.py _generate_image; img is "oserror" (os.makedirs raised),
\* "gemini", "pollinations" (the provider that succeeded) or "none" (both failed)
app_generate_image(s, img) ==
    IF s.generated_post = NoPost
    THEN [s EXCEPT !.error = "No generated post available for image creation"]
    ELSE IF img = "oserror" THEN [s EXCEPT !.error = "Image generation failed"]
    ELSE IF img \in {"gemini", "pollinations"} THEN [s EXCEPT !.image_path = "path"]
    ELSE [s EXCEPT !.image_path = ""]

\* workflow_manager.py _generate_image: the early return
src_image_skipped(s) ==
    s.generated_post = NoPost \/ s.generated_post.image_prompt \in {"none", ""}

\* workflow_manager.py _generate_image
src_generate_image(s, img) ==
    IF src_image_skipped(s) THEN s
    ELSE IF img \in {"gemini", "pollinations"} THEN [s EXCEPT !.image_path = "path"]
    ELSE s

\* the image providers in the order _generate_image consults them
ProviderChain == <<"gemini", "pollinations">>

\* provider calls of one image step with outcome img, in order, each with
\* the boolean the provider returned
ProviderTrace(img) ==
    CASE img = "gemini" -> << [provider |-> "gemini", ok |-> TRUE] >>
      [] img = "pollinations" -> << [provider |-> "gemini", ok |-> FALSE],
                                    [provider |-> "pollinations", ok |-> TRUE] >>
      [] img = "none" -> << [provider |-> "gemini", ok |-> FALSE],
                            [provider |-> "pollinations", ok |-> FALSE] >>
      [] OTHER -> << >>

\* provider calls made by one image step with outcome img
ImageCalls(img) ==
    CASE img = "gemini" -> 1
      [] img \in {"pollinations", "none"} -> 2
      [] OTHER -> 0

\* workflow_service.py _post_to_linkedin; pub is "unconfigured" (is_configured()
\* false: the post is simulated), "ok" or "fail" (result without success).  With
\* no generated_post the attribute access raises inside the try.
app_post_to_linkedin(s, pub) ==
    IF s.generated_post = NoPost THEN [s EXCEPT !.error = "LinkedIn posting failed"]
    ELSE IF pub \in {"unconfigured", "ok"} THEN [s EXCEPT !.posted_to_linkedin = TRUE]
    ELSE [s EXCEPT !.error = "Unknown LinkedIn API error"]

\* a publish request goes out in app's _post_to_linkedin
app_publish_sent(s, pub) ==
    s.generated_post # NoPost /\ pub \in {"ok", "fail"}

\* workflow_manager.py _post_to_linkedin; pub is "noctx" (user_id or db_session
\* missing), "nocred" (no credential row), "dberror" (get_credentials raised),
\* "ok" (a urn came back) or "fail" (no urn)
src_post_to_linkedin(s, pub) ==
    IF s.generated_post = NoPost THEN s
    ELSE IF pub = "noctx"
         THEN [s EXCEPT !.error = "Missing User ID or Database Session for posting."]
    ELSE IF pub = "nocred"
         THEN [s EXCEPT !.error = "No LinkedIn credentials found for this user."]
    ELSE IF pub = "dberror" THEN [s EXCEPT !.error = "Posting failed"]
    ELSE IF pub = "ok" THEN [s EXCEPT !.posted_to_linkedin = TRUE]
    ELSE [s EXCEPT !.error = "LinkedIn API request failed."]

\* a publish request goes out in src's _post_to_linkedin
src_publish_sent(s, pub) ==
    s.generated_post # NoPost /\ pub \in {"ok", "fail"}

(***************************************************************************)
(* Agent pipeline node functions.                                          *)
(***************************************************************************)
\* ResearchAgent.research; out is "parsed", "raw" (unparsable text) or "empty"
\* (unparsable and empty)
research(a, out) ==
    [a EXCEPT !.research_summary =
        CASE out = "parsed" -> "summary"
          [] out = "raw" -> "raw"
          [] OTHER -> "Research completed."]

\* StrategyAgent.strategize; out as for research
strategize(a, out) ==
    [a EXCEPT !.content_strategy =
        CASE out = "parsed" -> "json"
          [] out = "raw" -> "raw"
          [] OTHER -> "Strategy developed."]

\* SEOAgent.optimize; on a parse failure the canned hashtags of the post type
optimize(a, out) ==
    [a EXCEPT !.hashtags =
        IF out = "parsed" THEN "parsed"
        ELSE IF a.post_type = "ai_news" THEN "canned_ai_news"
        ELSE "canned_milestone"]

\* WriterAgent.write: state.draft_content = content.strip()
write(a, text) == [a EXCEPT !.draft_content = text]

\* a length guard that lets a revision of exactly the threshold length through
guarded_revision_at_threshold(a, len) ==
    IF len # 0 /\ len >= MIN_REVISED_LEN THEN "edited" ELSE a.draft_content

\* EditorAgent.edit, the length guard:
\* revised if revised and len(revised) > 50 else state.draft_content
guarded_revision(a, len) ==
    IF len # 0 /\ len > MIN_REVISED_LEN THEN "edited" ELSE a.draft_content

\* an editor whose except branch counts the unparsed answer as a revision
\* request
edit_unparsed_revises(a, status, len) ==
    IF status = "APPROVED"
    THEN [a EXCEPT !.revised_content = guarded_revision(a, len),
                   !.needs_revision = FALSE]
    ELSE [a EXCEPT !.revised_content =
                       IF status = "unparsable" THEN a.draft_content
                       ELSE guarded_revision(a, len),
                   !.needs_revision = TRUE,
                   !.revision_count = @ + 1]

\* EditorAgent.edit; status is "APPROVED", "NEEDS_REVISION" or "unparsable",
\* len the length of the editor's revised_content
edit(a, status, len) ==
    IF status = "unparsable"
    THEN [a EXCEPT !.revised_content = a.draft_content, !.needs_revision = FALSE]
    ELSE IF status = "APPROVED"
    THEN [a EXCEPT !.revised_content = guarded_revision(a, len),
                   !.needs_revision = FALSE]
    ELSE [a EXCEPT !.revised_content = guarded_revision(a, len),
                   !.needs_revision = TRUE,
                   !.revision_count = @ + 1]

\* answers of the visual designer's llm call, with and without surrounding
\* whitespace
RawPrompts == {"", " ", "prompt", " prompt "}

\* str.strip()
strip(raw) ==
    CASE raw \in {"", " "} -> ""
      [] raw \in {"prompt", " prompt "} -> "prompt"
      [] OTHER -> raw

\* a visual designer that stores the answer as it came
design_untrimmed(a, raw) ==
    [a EXCEPT !.image_prompt = raw]

\* VisualDesignerAgent.design after the include_image test:
\* state.image_prompt = content.strip()
design(a, raw) ==
    [a EXCEPT !.image_prompt = strip(raw)]

\* MultiAgentGeminiWorkflow._finalize_post: the final_post dictionary
finalize_post(a) ==
    [ content |-> a.revised_content,
      image_prompt |-> IF a.include_image THEN a.image_prompt
                       ELSE "none" ]    \* "none": None


(***************************************************************************)
(* Results of one pipeline run, computed with the node functions above.    *)
(***************************************************************************)
Statuses == {"APPROVED", "NEEDS_REVISION", "unparsable"}

\* lengths the editor's revised_content can have: empty, at the threshold,
\* above it
RevisedLens == {0, MIN_REVISED_LEN, MIN_REVISED_LEN + 1}

RECURSIVE EditedFrom(_)
\* agent states that leave the write/edit loop towards seo, from a state
\* about to run write
EditedFrom(a) ==
    UNION { LET e == edit(write(a, t), st, len)
            IN  IF should_revise(e) = "revise" THEN EditedFrom(e) ELSE {e}
            : t \in TextsOf("written"), st \in Statuses, len \in RevisedLens }

\* agent states after the visual node
Designed(a) ==
    IF ~a.include_image THEN {a}
    ELSE { design(a, raw) : raw \in RawPrompts }

\* final_post dictionaries generate_post can return
PipelineFinalPosts(include_image) ==
    { finalize_post(d) :
        d \in UNION { Designed(e) : e \in EditedFrom(AgentState("ai_news", include_image)) } }

(***************************************************************************)
(* The phase of the session's state, in the specification's vocabulary.    *)
(* The code keeps no phase field: a stored state is terminated with error  *)
(* when error is set, terminated with success when posted, terminated as   *)
(* rejected when the last call was a resume that took the rejected branch, *)
(* and awaiting approval otherwise.                                        *)
(***************************************************************************)
PhaseOf(s, c) ==
    IF s.error # "" THEN "TERMINATED_error"
    ELSE IF s.posted_to_linkedin THEN "TERMINATED_success"
    ELSE IF c.op = "resume" /\ c.branch = "rejected" THEN "TERMINATED_rejected"
    ELSE "AWAITING_APPROVAL"

Phase == IF sess = "none" THEN "NONE" ELSE PhaseOf(ws, call)

(***************************************************************************)
(* Construction and the two operations.                                    *)
(***************************************************************************)
\* LinkedInWorkflow.__init__: use_multi_agent survives only if the pipeline
\* object could be built
init_multi_agent(use_multi_agent, initOk) == use_multi_agent /\ initOk

\* methods that start a run
Entries(i) == IF i = "app" THEN {"run_workflow"}
              ELSE {"run_workflow", "run_workflow_async"}

\* workflow_manager.py binds no module-level name logger
LoggerDefined == FALSE

\* run_workflow_async line 280, logger.info(...), raises NameError before the
\* graph is invoked
entry_raises(i, entry) ==
    i = "src" /\ entry = "run_workflow_async" /\ ~LoggerDefined

\* first node of the graph
EntryPoint == "generate_content"

Clean(s) == [s EXCEPT !.error = ""]

\* a node returned state s; control moves to next ("END" ends the call, and
\* the session layer stores the returned state)
After(s, setsError, next) ==
    /\ ws' = s
    /\ inp' = IF next = "END" THEN s ELSE inp
    /\ steps' = IF next = "END" THEN 0 ELSE steps + 1
    /\ errInCall' = (errInCall \/ setsError)
    /\ pc' = IF next = "END" THEN "idle" ELSE next
    /\ sess' = IF next = "END" THEN "stored" ELSE sess

Goto(s, setsError, node, next) ==
    /\ After(s, setsError, next)
    /\ call' = [call EXCEPT !.lastNode = node]

\* publish requests of the call that just ended, if it was an Approved resume
PrevOf(c, k) == IF c.op = "resume" /\ c.branch = "approved" THEN k.pub ELSE -1

\* run_workflow / run_workflow_async, with generate_post of the session layer
Start ==
    /\ pc = "idle"
    /\ agPc = "off"
    /\ sess = "none"
    /\ call.op \in {"none", "approve_unknown"}
    /\ \E include_image \in BOOLEAN, use_multi_agent \in BOOLEAN,
          initOk \in BOOLEAN, entry \in Entries(impl) :
         /\ multi' = init_multi_agent(use_multi_agent, initOk)
         /\ ws' = WorkflowState(include_image)
         /\ inp' = WorkflowState(include_image)
         /\ call' = [NoCall EXCEPT !.op = "start",
                                   !.raised = entry_raises(impl, entry)]
         /\ pc' = IF entry_raises(impl, entry) THEN "idle" ELSE EntryPoint
    /\ steps' = 0
    /\ calls' = NoCalls
    /\ errInCall' = FALSE
    /\ prev' = -1
    /\ UNCHANGED <<rt, otherImage, impl, concurrent, sess, resumes, ag, agPc, writes, agLog>>

NOT_FOUND == 404          \* approve_post: status_code=404
SERVER_ERROR == 500       \* approve_post: status_code=500

\* fastapi.HTTPException(status_code, detail), an Exception
HTTPException(status_code, detail) ==
    [status_code |-> status_code, detail |-> detail]

\* str(e) of an HTTPException: "<status_code>: <detail>"
str(e) == <<e.status_code, ": ", e.detail>>

\* approve_post: except Exception as e: raise HTTPException(500, str(e))
approve_post_except(e) ==
    HTTPException(SERVER_ERROR, str(e))

\* approve_post for a session id that is not in workflow_sessions: the
\* HTTPException raised inside the try block reaches the handler's own
\* except clause
ApproveUnknownSession ==
    /\ pc = "idle"
    /\ sess = "none"
    /\ call.op = "none"
    /\ call' = [NoCall EXCEPT
                  !.op = "approve_unknown",
                  !.response = approve_post_except(
                                   HTTPException(NOT_FOUND, "Session not found"))]
    /\ UNCHANGED <<rt, otherImage, impl, multi, sess, ws, inp, pc, steps, resumes, ag,
                   agPc, writes, calls, prev, agLog, errInCall, concurrent>>

\* resume calls the model follows per session
ResumeBound == IF impl = "app" THEN MaxGraphResumes ELSE MaxResumes

\* continue_workflow_with_approval, with approve_post of the session layer
Resume ==
    /\ pc = "idle"
    /\ sess = "stored"
    /\ concurrent # "awaiting"
    /\ resumes < ResumeBound
    /\ \E approved \in BOOLEAN, feedback \in {"", "fb"} :
         LET s == [ws EXCEPT !.approved = approved, !.feedback = feedback]
             branch == IF impl = "app" THEN approval_decision(s)
                       ELSE continue_branch(approved, feedback)
         IN  /\ ws' = s
             /\ inp' = s
             /\ call' = [NoCall EXCEPT !.op = "resume",
                                       !.branch = branch,
                                       !.fromPhase = Phase,
                                       !.fromCount = ws.revision_count]
             /\ pc' = IF impl = "app" THEN EntryPoint
                      ELSE CASE branch = "approved" -> "post_to_linkedin"
                             [] branch = "revise" -> "revise_content"
                             [] OTHER -> "idle"
    /\ steps' = 0
    /\ resumes' = resumes + 1
    /\ calls' = NoCalls
    /\ errInCall' = FALSE
    /\ prev' = PrevOf(call, calls)
    /\ concurrent' = "none"
    /\ UNCHANGED <<rt, otherImage, impl, multi, sess, ag, agPc, writes, agLog>>

\* no content-generator call in progress
NoRetry == [pc |-> "idle", caller |-> "none", attempt |-> 0, hist |-> <<>>,
            result |-> "none", wrapped |-> 0, error |-> FALSE]

Init ==
    /\ impl \in {"app", "src"}
    /\ multi = FALSE
    /\ sess = "none"
    /\ ws = WorkflowState(TRUE)
    /\ inp = WorkflowState(TRUE)
    /\ pc = "idle"
    /\ call = NoCall
    /\ steps = 0
    /\ resumes = 0
    /\ ag = NoAgent
    /\ agPc = "off"
    /\ writes = 0
    /\ calls = NoCalls
    /\ prev = -1
    /\ agLog = NoLog
    /\ errInCall = FALSE
    /\ concurrent = "none"
    /\ rt = NoRetry
    /\ otherImage = "other"

(***************************************************************************)
(* Graph edges.                                                            *)
(***************************************************************************)
\* the call in progress runs the compiled graph (src resumes call the node
\* methods directly)
GraphMode == impl = "app" \/ call.op = "start"

\* name of the approval-pause node
AwaitNode == IF impl = "app" THEN "await_user_approval" ELSE "human_review"

\* edge leaving generate_content
AfterGenerate(s) ==
    IF impl = "app"
    THEN IF image_decision(s) = "with_image" THEN "generate_image" ELSE AwaitNode
    ELSE "generate_image"

\* conditional edge leaving the approval-pause node
AfterAwait(s) ==
    IF impl = "app"
    THEN CASE approval_decision(s) = "approved" -> "post_to_linkedin"
           [] approval_decision(s) = "needs_revision" -> "revise_content"
           [] OTHER -> "END"
    ELSE CASE check_review_outcome(s) = "approved" -> "post_to_linkedin"
           [] check_review_outcome(s) = "revise" -> "revise_content"
           [] OTHER -> "END"

\* edge leaving revise_content
AfterRevise ==
    IF ~GraphMode THEN "END"
    ELSE IF impl = "app" THEN "generate_content" ELSE AwaitNode

\* the invoke has supersteps left
CanStep == ~GraphMode \/ steps < RecursionLimit

AddCalls(n, k) == Min(n + k, CallCap)

(***************************************************************************)
(* Nodes of the workflow graph.                                            *)
(***************************************************************************)
\* include_image argument of the single-shot call: workflow_service.py passes
\* state.include_image, workflow_manager.py leaves the default True
single_shot_include_image(s) == IF impl = "app" THEN s.include_image ELSE TRUE

\* outcomes of the single-shot generator
SingleShotOutcomes(s) ==
    {Raised} \cup { Returned(p) : p \in SingleShotPosts(single_shot_include_image(s)) }

\* final_post handed back by generate_post, converted to a LinkedInPost
convert_final_post(final_post) ==
    IF impl = "app" THEN app_convert_final_post(final_post)
    ELSE src_convert_final_post(final_post)

\* outcomes of multi_agent_workflow.generate_post: an llm.invoke raised, or
\* the final post
PipelineOutcomes(s) ==
    {Raised} \cup
    { Returned(convert_final_post(fp)) : fp \in PipelineFinalPosts(s.include_image) }

\* workflow_service.py _generate_content_multi_agent: a failed pipeline run
\* falls back to _generate_content_single_agent
app_generate_content_multi_agent(s, run, out) ==
    IF run.ok THEN [s EXCEPT !.generated_post = run.post]
    ELSE generate_content_single(s, out)

\* workflow_manager.py _generate_content, multi-agent branch: a failed
\* pipeline run sets the error
src_generate_content_multi_agent(s, run) ==
    IF run.ok THEN [s EXCEPT !.generated_post = run.post]
    ELSE [s EXCEPT !.error = "Content generation failed"]

\* what a generate_content step did: which generators it called and whether
\* the last one returned a post
GenOutcome(pipeline, run, out) ==
    IF ~pipeline THEN (IF out.ok THEN "single_ok" ELSE "single_fail")
    ELSE IF run.ok THEN "pipeline_ok"
    ELSE IF out.ok THEN "fallback_ok" ELSE "fallback_fail"

\* generate_content node, single-shot strategy
GenerateContentSingle ==
    /\ pc = "generate_content"
    /\ CanStep
    /\ ~multi
    /\ \E out \in SingleShotOutcomes(ws) :
         LET s == generate_content_single(ws, out)
         IN  /\ After(s, ~out.ok, AfterGenerate(s))
             /\ call' = [call EXCEPT !.lastNode = "generate_content",
                                     !.gen = GenOutcome(FALSE, Raised, out)]
    /\ calls' = [calls EXCEPT !.gen = Bump(@)]
    /\ UNCHANGED <<rt, otherImage, impl, concurrent, multi, resumes, ag, agPc, writes, prev, agLog>>

\* generate_content node, agent-pipeline strategy
GenerateContentMulti ==
    /\ pc = "generate_content"
    /\ CanStep
    /\ multi
    /\ \E run \in PipelineOutcomes(ws) :
         IF impl = "app"
         THEN \E out \in IF run.ok THEN {Raised} ELSE SingleShotOutcomes(ws) :
                LET s == app_generate_content_multi_agent(ws, run, out)
                IN  /\ After(s, ~run.ok /\ ~out.ok, AfterGenerate(s))
                    /\ call' = [call EXCEPT !.lastNode = "generate_content",
                                            !.gen = GenOutcome(TRUE, run, out)]
         ELSE LET s == src_generate_content_multi_agent(ws, run)
              IN  /\ After(s, ~run.ok, AfterGenerate(s))
                  /\ call' = [call EXCEPT !.lastNode = "generate_content",
                                          !.gen = IF run.ok THEN "pipeline_ok"
                                                  ELSE "pipeline_fail"]
    /\ calls' = [calls EXCEPT !.gen = Bump(@)]
    /\ UNCHANGED <<rt, otherImage, impl, concurrent, multi, resumes, ag, agPc, writes, prev, agLog>>

\* the file an image step saves to: workflow_service.py names it after the
\* revision count, workflow_manager.py after a fresh uuid4
image_file(i, s, session) ==
    IF i = "app" THEN <<"generated_images/post_image", s.revision_count>>
    ELSE <<"generated_images/uuid4", session>>

\* another session of the same process, awaiting approval with the image its
\* start generated
OtherSession == [WorkflowState(TRUE) EXCEPT !.image_path = "path"]

\* outcomes of an image step in which a provider saved the image file
Saved == {"gemini", "pollinations"}

\* the file at the other session's image path after an image step of this
\* session, which saved a file or not
SaveImage(saved) ==
    IF saved /\ image_file(impl, ws, "this") = image_file(impl, OtherSession, "other")
    THEN "this" ELSE otherImage

\* generate_image node
GenerateImage ==
    /\ pc = "generate_image"
    /\ CanStep
    /\ IF impl = "app"
       THEN \E img \in {"oserror", "gemini", "pollinations", "none"} :
              /\ After(app_generate_image(ws, img),
                       app_generate_image(Clean(ws), img).error # "", AwaitNode)
              /\ call' = [call EXCEPT !.lastNode = "generate_image",
                                      !.img = IF ws.generated_post = NoPost
                                              THEN "skipped" ELSE img]
              /\ calls' = [calls EXCEPT !.img =
                              IF ws.generated_post = NoPost THEN @
                              ELSE AddCalls(@, ImageCalls(img))]
              /\ otherImage' = SaveImage(ws.generated_post # NoPost /\ img \in Saved)
       ELSE \E img \in {"gemini", "pollinations", "none"} :
              /\ After(src_generate_image(ws, img), FALSE, AwaitNode)
              /\ call' = [call EXCEPT !.lastNode = "generate_image",
                                      !.img = IF src_image_skipped(ws)
                                              THEN "skipped" ELSE img]
              /\ calls' = [calls EXCEPT !.img =
                              IF src_image_skipped(ws) THEN @
                              ELSE AddCalls(@, ImageCalls(img))]
              /\ otherImage' = SaveImage(~src_image_skipped(ws) /\ img \in Saved)
    /\ UNCHANGED <<rt, impl, concurrent, multi, resumes, ag, agPc, writes, prev, agLog>>

\* await_user_approval / human_review node and the conditional edge after it
AwaitApproval ==
    /\ pc = AwaitNode
    /\ CanStep
    /\ Goto(ws, FALSE, AwaitNode, AfterAwait(ws))
    /\ UNCHANGED <<rt, otherImage, impl, concurrent, multi, resumes, ag, agPc, writes, calls, prev, agLog>>

\* outcomes of revise_linkedin_post: with no post the prompt construction
\* raises before the model is called
ReviseOutcomes(s) ==
    IF s.generated_post = NoPost THEN {Raised}
    ELSE {Raised} \cup { Returned(p) : p \in RevisedPosts }

\* the revise_content node reaches the model call
revise_called(s) ==
    s.generated_post # NoPost /\ ~(impl = "app" /\ s.feedback = "")

\* revise_content node
ReviseContent ==
    /\ pc = "revise_content"
    /\ CanStep
    /\ \E out \in ReviseOutcomes(ws) :
         IF impl = "app"
         THEN Goto(app_revise_content(ws, out),
                   app_revise_content(Clean(ws), out).error # "",
                   "revise_content", AfterRevise)
         ELSE Goto(src_revise_content(ws, out),
                   src_revise_content(Clean(ws), out).error # "",
                   "revise_content", AfterRevise)
    /\ calls' = [calls EXCEPT !.rev = IF revise_called(ws) THEN Bump(@) ELSE @]
    /\ UNCHANGED <<rt, otherImage, impl, concurrent, multi, resumes, ag, agPc, writes, prev, agLog>>

\* post_to_linkedin node
PostToLinkedin ==
    /\ pc = "post_to_linkedin"
    /\ CanStep
    /\ IF impl = "app"
       THEN \E pub \in {"unconfigured", "ok", "fail"} :
              /\ Goto(app_post_to_linkedin(ws, pub),
                      app_post_to_linkedin(Clean(ws), pub).error # "",
                      "post_to_linkedin", "END")
              /\ calls' = [calls EXCEPT !.pub =
                              IF app_publish_sent(ws, pub) THEN Bump(@) ELSE @]
       ELSE \E pub \in {"noctx", "nocred", "dberror", "ok", "fail"} :
              /\ Goto(src_post_to_linkedin(ws, pub),
                      src_post_to_linkedin(Clean(ws), pub).error # "",
                      "post_to_linkedin", "END")
              /\ calls' = [calls EXCEPT !.pub =
                              IF src_publish_sent(ws, pub) THEN Bump(@) ELSE @]
    /\ UNCHANGED <<rt, otherImage, impl, concurrent, multi, resumes, ag, agPc, writes, prev, agLog>>

\* the invoke runs out of supersteps: GraphRecursionError, caught by
\* run_workflow / continue_workflow_with_approval of workflow_service.py,
\* which return the state object they were given with error set
GraphRecursion ==
    /\ impl = "app"
    /\ pc # "idle"
    /\ steps >= RecursionLimit
    /\ ws' = [inp EXCEPT !.error = "Workflow continuation failed"]
    /\ inp' = ws'
    /\ steps' = 0
    /\ pc' = "idle"
    /\ sess' = "stored"
    /\ errInCall' = TRUE
    /\ UNCHANGED <<rt, otherImage, impl, concurrent, multi, call, resumes, ag, agPc, writes, calls, prev,
                   agLog>>

\* approve_post is a coroutine with no lock: while one Approved request is
\* suspended at an await of _post_to_linkedin (workflow_manager.py), the event
\* loop runs a second approve_post on the same session.  It reads the same
\* state object from workflow_sessions, passes the tests of _post_to_linkedin
\* and suspends at its own await.  The graph-invoking engine is called
\* synchronously from its handler and has no such await.
ConcurrentApprove ==
    /\ impl = "src"
    /\ call.op = "resume"
    /\ call.branch = "approved"
    /\ pc = "post_to_linkedin"
    /\ ws.generated_post # NoPost
    /\ concurrent = "none"
    /\ resumes < ResumeBound
    /\ concurrent' = "awaiting"
    /\ resumes' = resumes + 1
    /\ UNCHANGED <<rt, otherImage, impl, multi, sess, ws, inp, pc, call, steps, ag, agPc, writes,
                   calls, prev, agLog, errInCall>>

\* the second request resumes after its await and finishes _post_to_linkedin
\* on the shared state object
ConcurrentPublish ==
    /\ concurrent = "awaiting"
    /\ \E pub \in {"nocred", "dberror", "ok", "fail"} :
         /\ ws' = src_post_to_linkedin(ws, pub)
         /\ concurrent' = IF src_publish_sent(ws, pub) THEN "sent" ELSE "done"
    /\ UNCHANGED <<rt, otherImage, impl, multi, sess, inp, pc, call, steps, resumes, ag, agPc,
                   writes, calls, prev, agLog, errInCall>>

Next ==
    \/ Start
    \/ Resume
    \/ GenerateContentSingle
    \/ GenerateContentMulti
    \/ GenerateImage
    \/ AwaitApproval
    \/ ReviseContent
    \/ PostToLinkedin
    \/ GraphRecursion
    \/ ConcurrentApprove
    \/ ConcurrentPublish
    \/ ApproveUnknownSession

Spec == Init /\ [][Next]_vars

(***************************************************************************)
(* The agent pipeline, node by node.                                       *)
(***************************************************************************)
wfVars == <<rt, otherImage, impl, multi, sess, ws, inp, pc, call, steps, resumes, calls, prev,
            errInCall, concurrent>>

\* MultiAgentGeminiWorkflow.generate_post: build the AgentState, invoke the graph
GeneratePost ==
    /\ agPc = "off"
    /\ pc = "idle"
    /\ sess = "none"
    /\ \E post_type \in PostTypes, include_image \in BOOLEAN :
         ag' = AgentState(post_type, include_image)
    /\ agPc' = "research"
    /\ writes' = 0
    /\ agLog' = NoLog
    /\ UNCHANGED wfVars

ParseOutcomes == {"parsed", "raw", "empty"}

\* the run's counters saturate one past the largest value the code reaches
WriteCap == ag_max_revisions + 2

\* the stage's except branch ran: the answer did not parse as a JSON object
Fallback(log, stage, failed) ==
    IF failed THEN [log EXCEPT !.fallbacks = @ \cup {stage}] ELSE log

\* the stage ran: the graph invoked the node (the trace saturates)
TraceCap == 2 * WriteCap + 5
Ran(log, stage) ==
    [log EXCEPT !.trace = IF Len(@) < TraceCap THEN Append(@, stage) ELSE @]

\* research node
Research ==
    /\ agPc = "research"
    /\ \E out \in ParseOutcomes :
         /\ ag' = research(ag, out)
         /\ agLog' = Ran(Fallback(agLog, "research", out # "parsed"), "research")
    /\ agPc' = "strategy"
    /\ UNCHANGED <<wfVars, writes>>

\* a strategy node whose edge leads to edit instead of write
Strategy_skips_write ==
    /\ agPc = "strategy"
    /\ \E out \in ParseOutcomes :
         /\ ag' = strategize(ag, out)
         /\ agLog' = Ran(Fallback(agLog, "strategy", out # "parsed"), "strategy")
    /\ agPc' = "edit"
    /\ UNCHANGED <<wfVars, writes>>

\* strategy node
Strategy ==
    /\ agPc = "strategy"
    /\ \E out \in ParseOutcomes :
         /\ ag' = strategize(ag, out)
         /\ agLog' = Ran(Fallback(agLog, "strategy", out # "parsed"), "strategy")
    /\ agPc' = "write"
    /\ UNCHANGED <<wfVars, writes>>

\* write node
Write ==
    /\ agPc = "write"
    /\ \E text \in TextsOf("written") : ag' = write(ag, text)
    /\ writes' = Min(writes + 1, WriteCap)
    /\ agLog' = Ran(agLog, "write")
    /\ agPc' = "edit"
    /\ UNCHANGED wfVars

\* edit node followed by the conditional edge _should_revise
Edit ==
    /\ agPc = "edit"
    /\ \E status \in Statuses, len \in RevisedLens :
         LET a == edit(ag, status, len)
         IN  /\ ag' = a
             /\ agPc' = IF should_revise(a) = "revise" THEN "write" ELSE "seo"
             /\ agLog' = [Ran(Fallback(agLog, "edit", status = "unparsable"), "edit") EXCEPT
                          !.edits = Min(agLog.edits + 1, WriteCap),
                          !.revisedLen = len,
                          !.edited = a.revised_content,
                          !.allNeeds = agLog.allNeeds /\ status = "NEEDS_REVISION",
                          !.loops = Min(agLog.loops +
                                        (IF should_revise(a) = "revise" THEN 1 ELSE 0),
                                        WriteCap)]
    /\ UNCHANGED <<wfVars, writes>>

\* a seo node whose except branch lets the parse error leave the stage
Seo_reraising ==
    /\ agPc = "seo"
    /\ \E out \in {"parsed", "unparsable"} :
         /\ ag' = optimize(ag, out)
         /\ agLog' = Ran(Fallback(agLog, "seo", out # "parsed"), "seo")
         /\ agPc' = IF out = "parsed" THEN "visual" ELSE "failed"
    /\ UNCHANGED <<wfVars, writes>>

\* seo node
Seo ==
    /\ agPc = "seo"
    /\ \E out \in {"parsed", "unparsable"} :
         /\ ag' = optimize(ag, out)
         /\ agLog' = Ran(Fallback(agLog, "seo", out # "parsed"), "seo")
    /\ agPc' = "visual"
    /\ UNCHANGED <<wfVars, writes>>

\* visual node: VisualDesignerAgent.design
Visual ==
    /\ agPc = "visual"
    /\ IF ~ag.include_image
       THEN /\ UNCHANGED ag
            /\ agLog' = Ran(agLog, "visual")
       ELSE \E raw \in RawPrompts :
              /\ ag' = design(ag, raw)
              /\ agLog' = [Ran(agLog, "visual") EXCEPT !.visualCalls = @ + 1,
                                                      !.visualOut = raw]
    /\ agPc' = "finalize"
    /\ UNCHANGED <<wfVars, writes>>

\* finalize node; generate_post returns final_post
FinalizePost ==
    /\ agPc = "finalize"
    /\ ag' = [ag EXCEPT !.final_post = finalize_post(ag)]
    /\ agLog' = Ran(agLog, "finalize")
    /\ agPc' = "done"
    /\ UNCHANGED <<wfVars, writes>>

\* stages whose llm.invoke can raise
LlmStages == {"research", "strategy", "write", "edit", "seo"} \cup
             (IF ag.include_image THEN {"visual"} ELSE {})

\* llm.invoke, or a statement of the stage outside its try block, raises:
\* the exception leaves generate_post
LlmRaise ==
    /\ agPc \in LlmStages
    /\ agPc' = "failed"
    /\ agLog' = [agLog EXCEPT !.raised = TRUE]
    /\ UNCHANGED <<wfVars, ag, writes>>

NextPipeline ==
    \/ GeneratePost
    \/ Research
    \/ Strategy
    \/ Write
    \/ Edit
    \/ Seo
    \/ Visual
    \/ FinalizePost
    \/ LlmRaise

SpecPipeline == Init /\ [][NextPipeline]_vars

\* every enabled pipeline node runs: the graph invoke executes nodes until END
FairPipeline == SpecPipeline /\ WF_vars(NextPipeline)

(***************************************************************************)
(* The retry wrapper of gemini_client and the functions that call it.      *)
(***************************************************************************)
MaxAttempts == 3          \* gemini_retry: stop_after_attempt(3)

\* the exceptions one attempt of client.models.generate_content can end with
Failures == {"ConnectionError", "TimeoutError", "Exception"}

\* gemini_retry: stop=stop_after_attempt(3)
stop_after_attempt_late(attempt_number) ==
    attempt_number >= MaxAttempts + 1
stop_after_attempt(attempt_number) ==
    attempt_number >= MaxAttempts

\* gemini_retry: retry=retry_if_exception_type((ConnectionError, TimeoutError,
\* Exception))
retry_if_exception_type(outcome) == outcome \in Failures

\* the content generators of gemini_client that go through the wrapper
Generators == {"generate_linkedin_post", "revise_linkedin_post"}

retryVars == <<otherImage, impl, multi, sess, ws, inp, pc, call, steps, resumes, ag, agPc,
               writes, calls, prev, agLog, errInCall, concurrent>>

\* a generation or revision node calls its generator, which calls
\* _generate_with_retry once
CallGenerator ==
    /\ rt.pc \in {"idle", "returned", "error"}
    /\ \E g \in Generators :
         rt' = [NoRetry EXCEPT !.pc = "attempt", !.caller = g, !.wrapped = 1]
    /\ UNCHANGED retryVars

\* _generate_with_retry under gemini_retry: one attempt of the model call; a
\* response is returned at once, an exception is retried until
\* stop_after_attempt and then re-raised (reraise=True)
Attempt ==
    /\ rt.pc = "attempt"
    /\ \E outcome \in Failures \cup {"ok"} :
         LET n == rt.attempt + 1
             r == [rt EXCEPT !.attempt = n, !.hist = Append(@, outcome)]
         IN  rt' = IF ~retry_if_exception_type(outcome)
                     THEN [r EXCEPT !.pc = "parse"]
                   ELSE IF stop_after_attempt(n)
                     THEN [r EXCEPT !.pc = "raised", !.result = outcome]
                   ELSE [r EXCEPT !.pc = "sleep"]
    /\ UNCHANGED retryVars

\* gemini_retry: wait_exponential, before_sleep logs the retry
Sleep ==
    /\ rt.pc = "sleep"
    /\ rt' = [rt EXCEPT !.pc = "attempt"]
    /\ UNCHANGED retryVars

\* generate_linkedin_post / revise_linkedin_post after the wrapper returned:
\* response.text is parsed into a LinkedInPost, an empty or malformed answer
\* raises without another call of the wrapper
ParseResponse ==
    /\ rt.pc = "parse"
    /\ \E text \in {"json", "empty", "malformed"} :
         rt' = IF text = "json"
                 THEN [rt EXCEPT !.pc = "returned", !.result = "post"]
                 ELSE [rt EXCEPT !.pc = "raised", !.result = text]
    /\ UNCHANGED retryVars

\* the generator wraps what was raised in Exception("Failed to ..."), the
\* node's except branch stores it in state.error
NodeCatches ==
    /\ rt.pc = "raised"
    /\ rt' = [rt EXCEPT !.pc = "error", !.error = TRUE]
    /\ UNCHANGED retryVars

NextRetry ==
    \/ CallGenerator
    \/ Attempt
    \/ Sleep
    \/ ParseResponse
    \/ NodeCatches

SpecRetry == Init /\ [][NextRetry]_vars

TypeOK ==
    /\ impl \in {"app", "src"}
    /\ multi \in BOOLEAN
    /\ sess \in {"none", "stored"}
    /\ ws.revision_count \in 0..MaxResumes
    /\ writes \in 0..WriteCap
    /\ prev \in -1..CallCap
    /\ concurrent \in {"none", "awaiting", "sent", "done"}

\* the final post of a stepped pipeline run is one of PipelineFinalPosts
PipelineAgrees ==
    agPc = "done" =>
        ag.final_post \in PipelineFinalPosts(ag.include_image)

(***************************************************************************)
(* Claims.                                                                 *)
(***************************************************************************)
\* a call has returned a state to its caller
Returned_ == pc = "idle" /\ sess = "stored" /\ call.op # "none"

ReviseBranches == {"revise", "needs_revision"}

\* C1: over any sequence of resume calls that ask for a revision,
\* revision_count never exceeds max_revisions.
C1_RevisionCountBounded == ws.revision_count <= max_revisions

\* C2: two Approved resumes in a row on one session send at most one publish
\* request between them.
C2_NoDoublePublish ==
    (call.op = "resume" /\ call.branch = "approved" /\ prev >= 0)
        => prev + calls.pub <= 1

\* C3: start returns a state, and the state it returns stands at the approval
\* pause: awaiting approval, or terminated with error set.
C3_StartReachesPause ==
    (call.op = "start" /\ pc = "idle")
        => /\ ~call.raised
           /\ sess = "stored"
           /\ call.lastNode = AwaitNode
           /\ Phase \in {"AWAITING_APPROVAL", "TERMINATED_error"}

\* C4: within one call, no publish request is sent once a step of that call
\* has set the error field.
C4_NoPublishAfterError == [][calls'.pub > calls.pub => ~errInCall]_vars

\* C5: no returned state has posted_to_linkedin true together with a
\* non-empty error.
C5_PostedImpliesNoError ==
    Returned_ => ~(ws.posted_to_linkedin /\ ws.error # "")

\* C6: a resume on a state that is not awaiting approval fails as an invalid
\* transition and makes no generation, revision, image or publish call.
C6_ResumeOnlyWhenAwaiting ==
    (call.op = "resume" /\ call.fromPhase # "AWAITING_APPROVAL")
        => calls = NoCalls /\ (pc = "idle" => call.raised)

\* C7: when the editor answers NeedsRevision every time, the pipeline reaches
\* its end after exactly max_revisions + 1 Write invocations.
C7_ExactlyMaxPlusOneWrites ==
    (agPc = "done" /\ agLog.allNeeds) => writes = ag_max_revisions + 1

\* C8: whatever the editor answers, a pipeline run invokes Write at most
\* max_revisions + 1 times, and unless an llm call raises it reaches the end
\* of Finalize.
C8_WritesBoundedAndFinalizes ==
    /\ [](writes <= ag_max_revisions + 1)
    /\ (<>(agPc = "failed") \/ ((agPc = "research") ~> (agPc = "done")))

\* C8 witness: a run that looped back to Write after a NeedsRevision answer,
\* got other answers too, and finished Finalize.
C8_Witness ==
    agPc = "done" /\ writes = ag_max_revisions /\ ~agLog.allNeeds
        /\ ag.final_post # NoFinalPost

\* C9: the revision_count of the state handed to and returned by the calls
\* never decreases and changes only in a resume that asks for a revision;
\* inside a call it grows only in the revise_content node, by one.
C9_RevisionCountFrame ==
    [][ /\ inp'.revision_count >= inp.revision_count
        /\ (inp'.revision_count # inp.revision_count
              => call.op = "resume" /\ call.branch \in ReviseBranches)
        /\ (ws'.revision_count > ws.revision_count
              => pc = "revise_content"
                 /\ ws'.revision_count = ws.revision_count + 1) ]_vars

\* C9 witness: revisions were made, then an Approved resume published, and
\* the count of the returned state is still the number of revisions.
C9_Witness ==
    /\ Returned_
    /\ call.branch = "approved"
    /\ ws.posted_to_linkedin
    /\ ws.revision_count >= 1

\* C10: a state returned by start or by a revise resume that awaits approval
\* with no error holds a draft whose content is non-empty.
C10_DraftNonEmpty ==
    (Returned_ /\ Phase = "AWAITING_APPROVAL"
        /\ (call.op = "start" \/ call.branch \in ReviseBranches))
        => ws.generated_post # NoPost /\ ws.generated_post.content # ""

\* a resume that asked for a revision of a state awaiting approval, below the
\* revision limit, has returned and no step of it set the error field
RevisedOk ==
    /\ Returned_
    /\ call.op = "resume"
    /\ call.branch \in ReviseBranches
    /\ call.fromPhase = "AWAITING_APPROVAL"
    /\ call.fromCount < max_revisions
    /\ ~errInCall

\* C11: a revise resume on a state awaiting approval with revision_count below
\* the limit, all of whose steps succeed, returns a state awaiting approval
\* again, with revision_count one higher, not posted and with no error.
C11_ReviseReturnsToApproval ==
    RevisedOk =>
        /\ Phase = "AWAITING_APPROVAL"
        /\ ws.revision_count = call.fromCount + 1
        /\ ~ws.posted_to_linkedin
        /\ ws.error = ""

\* C11 witness: such a resume returned after one call of the revise
\* collaborator, the count one above the count handed in.
C11_Witness ==
    RevisedOk /\ calls.rev = 1 /\ ws.revision_count = call.fromCount + 1
        /\ ws.generated_post # NoPost

\* C12: a resume with approved false and no feedback on a state awaiting
\* approval ends the workflow as rejected: nothing is published, the state is
\* not posted, and the error field stays empty.
C12_RejectedIsNotAnError ==
    (Returned_ /\ call.op = "resume" /\ call.branch = "rejected"
        /\ call.fromPhase = "AWAITING_APPROVAL")
        => /\ Phase = "TERMINATED_rejected"
           /\ ~ws.posted_to_linkedin
           /\ calls.pub = 0
           /\ ws.error = ""

\* C13: with the agent pipeline selected, the generate_content step of a
\* start sets the error field exactly when the pipeline run failed and the
\* single-shot call made in its place failed too; when that single-shot call
\* returns a post, the post is the draft.
C13_PipelineFallsBack ==
    (multi /\ call.op = "start" /\ call.lastNode = "generate_content")
        => /\ (ws.error # "") = (call.gen = "fallback_fail")
           /\ (call.gen = "fallback_ok" => ws.generated_post # NoPost)

\* the generate_content step of the call returned a post
GenOk == call.gen \in {"single_ok", "pipeline_ok", "fallback_ok"}

\* C14: in every image step the providers are called in the order of the
\* chain, each at most once, none after the first that succeeds, and the
\* image path after the step is non-empty exactly when one of them succeeded.
C14_ImageFallbackChain ==
    call.lastNode = "generate_image" =>
        LET tr == ProviderTrace(call.img)
        IN  /\ Len(tr) <= Len(ProviderChain)
            /\ \A i \in 1..Len(tr) : tr[i].provider = ProviderChain[i]
            /\ \A i \in 1..Len(tr) : tr[i].ok => i = Len(tr)
            /\ (ws.image_path # "") = (\E i \in 1..Len(tr) : tr[i].ok)

\* C15: when the image step of a start ends with no image (both providers
\* failed, or the step raised), the error field is not set, the image path is
\* empty, and the start returns the generated draft awaiting approval.
C15_ImageFailureNotFatal ==
    (call.op = "start" /\ GenOk /\ call.img \in {"none", "oserror"})
        => /\ ws.error = ""
           /\ ws.image_path = ""
           /\ (Returned_ => Phase = "AWAITING_APPROVAL" /\ ws.generated_post # NoPost)

\* C16: a start with include_image false whose generation succeeds calls no
\* image provider and returns a state awaiting approval with no image path
\* and no image prompt in the draft.
C16_NoImageWhenNotRequested ==
    (Returned_ /\ call.op = "start" /\ ~ws.include_image /\ GenOk)
        => /\ calls.img = 0
           /\ Phase = "AWAITING_APPROVAL"
           /\ ws.image_path = ""
           /\ ws.generated_post.image_prompt = "none"

\* C17: an Approved resume sends at most one publish request; when the
\* request fails the state is left not posted with a non-empty error; and a
\* resume on a state so returned sends no publish request.
C17_PublishFailureTerminal ==
    [][ /\ (call.op = "resume" /\ call.branch = "approved") => calls'.pub <= 1
        /\ (pc = "post_to_linkedin" /\ calls'.pub > calls.pub
              /\ ~ws'.posted_to_linkedin) => ws'.error # ""
        /\ (call.op = "resume" /\ prev >= 1
              /\ ~inp.posted_to_linkedin /\ inp.error # "")
              => calls'.pub <= calls.pub ]_vars

\* C18: approve requests on one session never overlap, two of them in a row
\* send at most one publish request between them whether or not they
\* overlap, and no resume raises revision_count by more than one.
C18_ResumesSerialized ==
    /\ concurrent = "none"
    /\ (call.op = "resume" /\ prev >= 0) => prev + calls.pub <= 1
    /\ ~(concurrent = "sent" /\ calls.pub >= 1)
    /\ ws.revision_count <= resumes

\* error texts written by the generation and revision nodes
GenRevErrors ==
    {"Content generation failed", "Content revision failed", "Revision failed",
     "No feedback provided for revision"}

\* C19: once the generation or the revision node has set the error field in
\* a call, that call makes no further generation, revision or image-provider
\* call, and it returns terminated with error.
C19_ErrorShortCircuits ==
    [][ /\ (errInCall /\ ws.error \in GenRevErrors /\ pc # "idle")
              => /\ calls'.gen <= calls.gen
                 /\ calls'.rev <= calls.rev
                 /\ calls'.img <= calls.img
        /\ (pc' = "idle" /\ sess' = "stored" /\ errInCall'
              /\ ws'.error \in GenRevErrors) => PhaseOf(ws', call') = "TERMINATED_error"
      ]_vars

\* stages whose answer is parsed as JSON with a fallback
ParsingStages == {"research", "strategy", "edit", "seo"}

\* C20: unless an llm call raises, a pipeline run in which any of the
\* Research, Strategy, Edit and SEO stages failed to parse its answer still
\* runs to the end of Finalize and yields a final post.
C20_ParseFailuresRecovered ==
    \/ <>(agLog.raised)
    \/ [](agLog.fallbacks # {}
            => <>(agPc = "done" /\ ag.final_post # NoFinalPost))

\* C20 witness: all four stages fell back on a parse failure and the run
\* finished Finalize with a final post.
C20_Witness ==
    /\ agPc = "done"
    /\ agLog.fallbacks = ParsingStages
    /\ ~agLog.raised
    /\ ag.final_post # NoFinalPost

\* C21: an Edit step whose answer cannot be parsed leaves needs_revision
\* false, revised_content equal to the draft it was given and revision_count
\* unchanged, and the run goes on to SEO.
C21_UnparsedEditApproves ==
    [][ (agPc = "edit" /\ "edit" \in agLog'.fallbacks)
          => /\ ~ag'.needs_revision
             /\ ag'.revised_content = ag.draft_content
             /\ ag'.revision_count = ag.revision_count
             /\ agPc' = "seo" ]_vars

\* C21 witness: after one revision loop the editor's second answer did not
\* parse; the run stands before SEO with the count of the first loop.
C21_Witness ==
    /\ agPc = "seo"
    /\ "edit" \in agLog.fallbacks
    /\ agLog.loops = 1
    /\ ag.revision_count = 1
    /\ ag.revised_content = ag.draft_content
    /\ ~ag.needs_revision

PipelineDraftRevised ==
    /\ impl = "src"
    /\ multi
    /\ resumes = 1
    /\ RevisedOk

\* C23: a draft produced by the pipeline's Finalize stage and handed to the
\* revise operation, the revise call succeeding, comes back as a draft with
\* the same post type and non-empty content. The drafts here carry content and
\* image prompt; the formula states the content part.
C23_ReviseRoundTrip ==
    PipelineDraftRevised
        => ws.generated_post # NoPost /\ ws.generated_post.content # ""

\* C24: no step of this session's run changes the image stored at another
\* session's image path (sessions share no mutable state besides the session
\* map).
C24_SessionsIsolated == otherImage = "other"

\* stages of the graph in the order the trace may show them, and the stages
\* each one may directly follow
Before(stage) ==
    CASE stage = "research" -> {}
      [] stage = "strategy" -> {"research"}
      [] stage = "write" -> {"strategy", "edit"}
      [] stage = "edit" -> {"write"}
      [] stage = "seo" -> {"edit"}
      [] stage = "visual" -> {"seo"}
      [] stage = "finalize" -> {"visual"}

\* number of times the stage occurs in the trace
RECURSIVE Runs(_, _)
Runs(tr, stage) ==
    IF tr = <<>> THEN 0
    ELSE (IF Head(tr) = stage THEN 1 ELSE 0) + Runs(Tail(tr), stage)

\* C25: the stages of a pipeline run execute in the order Research, Strategy,
\* Write, Edit, then further (Write, Edit) pairs, then SEO, Visual, Finalize:
\* Research and Strategy run once each, SEO never runs before the last Edit,
\* and a run that completes has run Finalize exactly once, as its last stage.
C25_StageOrder ==
    LET tr == agLog.trace
    IN  /\ \A i \in 1..Len(tr) :
             IF i = 1 THEN tr[i] = "research" ELSE tr[i - 1] \in Before(tr[i])
        /\ Runs(tr, "research") <= 1
        /\ Runs(tr, "strategy") <= 1
        /\ \A i, j \in 1..Len(tr) : (tr[i] = "seo" /\ tr[j] = "edit") => j < i
        /\ \A i \in 1..Len(tr) : tr[i] = "finalize" => i = Len(tr)
        /\ agPc = "done" =>
             /\ Runs(tr, "research") = 1
             /\ Runs(tr, "strategy") = 1
             /\ Runs(tr, "seo") = 1
             /\ Runs(tr, "visual") = 1
             /\ Runs(tr, "finalize") = 1
             /\ tr[Len(tr)] = "finalize"
             /\ Runs(tr, "write") = Runs(tr, "edit")

C25_Witness ==
    /\ agPc = "done"
    /\ agLog.trace = <<"research", "strategy", "write", "edit", "write", "edit",
                       "seo", "visual", "finalize">>

\* C26: an Approved resume of a state awaiting approval makes no content-generation, revision or
\* image-provider call, and the draft and image path its publish step works on
\* are those of the state handed to the resume, the one returned at the
\* preceding approval pause.
C26_ApprovedPublishesPausedDraft ==
    (call.op = "resume" /\ call.branch = "approved"
        /\ call.fromPhase = "AWAITING_APPROVAL")
        => /\ calls.gen = 0
           /\ calls.rev = 0
           /\ calls.img = 0
           /\ (pc = "post_to_linkedin"
                 => /\ ws.generated_post = inp.generated_post
                    /\ ws.image_path = inp.image_path)

\* the revise_content step of a resume on a state awaiting approval calls
\* revise_linkedin_post, for the first time in the call
FirstReviseCall ==
    /\ pc = "revise_content"
    /\ call.op = "resume"
    /\ call.fromPhase = "AWAITING_APPROVAL"
    /\ calls.rev = 0
    /\ calls'.rev = 1

\* C27: in the revision transition revise is called with the draft that was
\* awaiting approval and the reviewer's feedback; when it succeeds the draft
\* becomes the revise output, revision_count goes up by one and the stored
\* feedback is cleared.
C27_ReviseTakesPausedDraft ==
    [][ FirstReviseCall
          => /\ ws.generated_post = inp.generated_post
             /\ ws.feedback = inp.feedback
             /\ ws.feedback # ""
             /\ (ws'.error \notin {"Content revision failed", "Revision failed"}
                   => /\ ws'.generated_post \in RevisedPosts
                      /\ ws'.revision_count = ws.revision_count + 1
                      /\ ws'.feedback = "") ]_vars

\* C28: after a successful Revise resume the draft returned for the next
\* approval is the output of the revise operation; no content generation of
\* the same call has overwritten it.
C28_RevisedDraftReturned ==
    RevisedOk => ws.generated_post \in RevisedPosts

\* C29: one resume call invokes the revise operation at most once, also when
\* that revise call fails and leaves the feedback in place.
C29_OneReviseCallPerResume ==
    call.op = "resume" => calls.rev <= 1

\* C30: posted_to_linkedin becomes true only in a step that sent a publish
\* request, in a resume call or in the approve request running beside it; with
\* the publisher not configured or the credentials missing it stays false.
C30_PostedOnlyAfterPublish ==
    [][ (~ws.posted_to_linkedin /\ ws'.posted_to_linkedin)
          => \/ call.op = "resume" /\ calls'.pub = calls.pub + 1
             \/ concurrent = "awaiting" /\ concurrent' = "sent" ]_vars

\* C31: a rejecting resume (approved false, no feedback) of a state awaiting
\* approval makes no content-generation, revision, image-provider or publish
\* call and leaves the draft, the image path and revision_count as they were
\* handed in.
C31_RejectChangesNothing ==
    (call.op = "resume" /\ call.branch = "rejected"
        /\ call.fromPhase = "AWAITING_APPROVAL")
        => /\ calls = NoCalls
           /\ ws.generated_post = inp.generated_post
           /\ ws.image_path = inp.image_path
           /\ ws.revision_count = call.fromCount

\* the revise_content step of a resume on a state awaiting approval ends with
\* the error of a failed revise call
ReviseFails ==
    /\ pc = "revise_content"
    /\ call.op = "resume"
    /\ call.fromPhase = "AWAITING_APPROVAL"
    /\ calls'.rev # calls.rev
    /\ ws'.error \in {"Content revision failed", "Revision failed"}

\* C32: when the revise operation fails during a Revise resume, the error
\* field is set and the draft and revision_count are those the state had
\* before the call.
C32_FailedReviseKeepsState ==
    [][ ReviseFails
          => /\ ws'.revision_count = call.fromCount
             /\ ws'.generated_post = inp.generated_post ]_vars

\* C33: a start call sends no publish request and leaves posted_to_linkedin
\* false, whatever the collaborators do; a publish request is sent only inside
\* a resume call whose decision is Approved (by the call itself or by the
\* approve request running beside it).
C33_StartNeverPublishes ==
    /\ call.op = "start" => calls.pub = 0 /\ ~ws.posted_to_linkedin
                            /\ pc # "post_to_linkedin"
    /\ (calls.pub > 0 \/ concurrent = "sent")
         => call.op = "resume" /\ call.branch = "approved"

C33_Witness ==
    /\ call.op = "start"
    /\ Returned_
    /\ Phase = "AWAITING_APPROVAL"
    /\ ws.generated_post # NoPost
    /\ ws.image_path # ""
    /\ calls.pub = 0
    /\ ~ws.posted_to_linkedin

\* C34: in every state of an agent-pipeline run revision_count lies between 0
\* and max_revisions, whatever the editor answers.
C34_PipelineCountBounded ==
    ag.revision_count \in 0..ag_max_revisions

C34_Witness ==
    /\ agPc = "seo"
    /\ ag.revision_count = ag_max_revisions
    /\ ag.needs_revision
    /\ agLog.edits = ag_max_revisions

\* C35: at Finalize the pipeline's revision_count equals the number of
\* Edit -> Write loop-backs taken, which is the number of Write invocations
\* minus one.
C35_CountEqualsLoopBacks ==
    agPc \in {"finalize", "done"}
        => /\ ag.revision_count = agLog.loops
           /\ agLog.loops = writes - 1

\* the Edit stage was the last stage to run
AfterEdit ==
    agLog.trace # <<>> /\ agLog.trace[Len(agLog.trace)] = "edit"

\* C36: after every Edit stage revised_content is the editor's revised text,
\* which is then longer than the minimum length, or exactly the draft handed to
\* the editor; an empty or too-short revision never replaces the draft,
\* whether the editor approved or asked for a revision.
C36_LengthGuard ==
    AfterEdit
        => /\ ag.revised_content \in {"edited", ag.draft_content}
           /\ ag.revised_content = "edited" => agLog.revisedLen > MIN_REVISED_LEN
           /\ agLog.revisedLen <= MIN_REVISED_LEN
                => ag.revised_content = ag.draft_content

C36_Witness ==
    /\ AfterEdit
    /\ ag.needs_revision
    /\ agLog.revisedLen = MIN_REVISED_LEN
    /\ ag.draft_content = "written"
    /\ ag.revised_content = "written"

\* C37: in a completed pipeline run with include_image false the Visual stage
\* made no model call and the final post's image prompt is None; with
\* include_image true it made exactly one call and the final post's image
\* prompt is the trimmed answer to that call; in both cases the final post's
\* content is the revised_content the last Edit stage left.
C37_VisualAndFinalPost ==
    agPc = "done"
        => /\ ~ag.include_image
                => agLog.visualCalls = 0 /\ ag.final_post.image_prompt = "none"
           /\ ag.include_image
                => /\ agLog.visualCalls = 1
                   /\ ag.final_post.image_prompt = strip(agLog.visualOut)
           /\ ag.final_post.content = agLog.edited

C37_Witness ==
    /\ agPc = "done"
    /\ ag.include_image
    /\ agLog.visualCalls = 1
    /\ agLog.visualOut = " prompt "
    /\ ag.final_post.image_prompt = "prompt"
    /\ ag.final_post.content = "edited"

\* C38: an approve-post request for a session id that is not in the session
\* map is answered with 404 'Session not found', runs no workflow step, calls
\* no collaborator and leaves the session map as it was.
C38_UnknownSessionIs404 ==
    call.op = "approve_unknown"
        => /\ call.response = HTTPException(NOT_FOUND, "Session not found")
           /\ calls = NoCalls
           /\ call.lastNode = "none"
           /\ sess = "none"

====
